---- MODULE Spec2Model ----
(***************************************************************************)
(* A model of BatchCSVtoSQL.py (profile the corpus, generate DDL, drop and *)
(* create the table, chunked typed insert) and of BulkCSVtoSQL.py (probe,  *)
(* create from header or truncate, BULK INSERT per file).                  *)
(*                                                                         *)
(* Python strings are sequences of one-character strings, so that strip,   *)
(* len, split and f-string formatting are computed, not assumed.           *)
(***************************************************************************)
EXTENDS Integers, Sequences, FiniteSets, TLC

VARIABLES
    script,                 \* which program runs: "Batch", "Bulk", or "none"
    pc,                     \* position of main()
    err,                    \* the exception that ended the run, or "none"
    BUCKETS,                \* BatchCSVtoSQL.BUCKETS
    VARCHAR_MAX_THRESHOLD,  \* BatchCSVtoSQL.VARCHAR_MAX_THRESHOLD
    CHUNKSIZE,              \* BatchCSVtoSQL.CHUNKSIZE
    files,                  \* the sorted manifest: a sequence of CSV files
    columns,                \* header columns of files[1], stripped
    stats,                  \* result of profile_max_lengths
    create_sql,             \* result of generate_create_table_sql
    table,                  \* the target table in the store
    table0,                 \* the target table as it was when the run began
    log,                    \* what was executed against the store, in order
    pos,                    \* the load loop: file index and rows already read
    width,                  \* argument of bucket_size
    size,                   \* result of bucket_size
    sized                   \* the results for the widths below width

vars == <<script, pc, err, BUCKETS, VARCHAR_MAX_THRESHOLD, CHUNKSIZE, files,
          columns, stats, create_sql, table, table0, log, pos, width, size,
          sized>>

\* ------------------------------------------------------------- bounds

Slack == 2
MaxHeader == 3
MaxFiles == 2
MaxRows == 2
MaxChunk == 2
MaxFieldLen == 2

\* ------------------------------------------------------------ strings

Max(S) == CHOOSE m \in S : \A x \in S : x <= m

Range(s) == {s[i] : i \in 1..Len(s)}

\* Python's str.strip() strips these (among others) from both ends.
Whitespace == {" ", "\t", "\n", "\r"}

RECURSIVE lstrip(_)
lstrip(s) ==
    IF s # <<>> /\ Head(s) \in Whitespace THEN lstrip(Tail(s)) ELSE s

RECURSIVE rstrip(_)
rstrip(s) ==
    IF s # <<>> /\ s[Len(s)] \in Whitespace
    THEN rstrip(SubSeq(s, 1, Len(s) - 1)) ELSE s

strip(s) == rstrip(lstrip(s))

DigitChars == <<"0", "1", "2", "3", "4", "5", "6", "7", "8", "9">>

\* Python's str(n) for an integer n >= 0.
RECURSIVE str(_)
str(n) ==
    IF n < 10 THEN <<DigitChars[n + 1]>>
    ELSE str(n \div 10) \o <<DigitChars[(n % 10) + 1]>>

DigitValue ==
    [c \in Range(DigitChars) |-> (CHOOSE d \in 1..10 : DigitChars[d] = c) - 1]

\* the number the first k digits of s write
RECURSIVE int_prefix(_, _)
int_prefix(s, k) ==
    IF k = 0 THEN 0 ELSE 10 * int_prefix(s, k - 1) + DigitValue[s[k]]

\* Python's int(s) for a string of decimal digits.
int(s) == int_prefix(s, Len(s))

\* sep.join(parts)
RECURSIVE join(_, _)
join(sep, parts) ==
    IF parts = <<>> THEN <<>>
    ELSE IF Len(parts) = 1 THEN parts[1]
    ELSE parts[1] \o sep \o join(sep, Tail(parts))

\* ------------------------------------------------------- configuration

DEFAULT_BUCKETS == <<1, 10, 25, 50, 100, 255, 500, 1000, 2000, 4000>>
DEFAULT_VARCHAR_MAX_THRESHOLD == 4000
SCHEMA == <<"d", "b", "o">>
TABLE == <<"B", "i", "g", "C", "s", "v", "T", "a", "b", "l", "e">>

MAX == <<"M", "A", "X">>

\* ---------------------------------------------------------- bucket_size

RECURSIVE first_bucket(_, _)
first_bucket(max_len, bs) ==
    IF bs = <<>> THEN str(VARCHAR_MAX_THRESHOLD)
    ELSE IF max_len <= Head(bs) THEN str(Head(bs))
    ELSE first_bucket(max_len, Tail(bs))

\* bucket_size with the threshold comparison turned around
bucket_size_flipped(max_len) ==
    IF max_len <= 0 THEN <<"1">>
    ELSE IF max_len < VARCHAR_MAX_THRESHOLD THEN MAX
    ELSE first_bucket(max_len, BUCKETS)

bucket_size(max_len) ==
    IF max_len <= 0 THEN <<"1">>
    ELSE IF max_len > VARCHAR_MAX_THRESHOLD THEN MAX
    ELSE first_bucket(max_len, BUCKETS)

\* -------------------------------------------- create_table_from_header

\* f"{col}_{i}"
suffixed(col, i) == col \o <<"_">> \o str(i)

\* first_free without the while loop: the suffix i, taken or not
first_free_once(col, i, seen) == suffixed(col, i)

RECURSIVE first_free(_, _, _)
first_free(col, i, seen) ==
    IF suffixed(col, i) \in seen THEN first_free(col, i + 1, seen)
    ELSE suffixed(col, i)

RECURSIVE dedup(_, _)
dedup(cols, safe) ==
    IF cols = <<>> THEN safe
    ELSE LET c == Head(cols)
             seen == Range(safe)
             col == IF c \in seen THEN first_free(c, 2, seen) ELSE c
         IN dedup(Tail(cols), Append(safe, col))

safe_cols(cols) == dedup(cols, <<>>)

\* ------------------------------------------------------------- pandas

\* A CSV file of the manifest: header fields as they stand in the file, the
\* data rows (one field per header field), and bad = k > 0 when data row k
\* cannot be decoded (0: every row decodes).
\* The values read_csv(keep_default_na=True) reads as NA, among the strings
\* over the model's alphabet.
NaValues == {<<>>, <<"N", "A">>}

isna(v) == v \in NaValues

\* fillna left out: an NA value keeps its text
fillna_omitted(v) == v

\* s.fillna("")
fillna(v) == IF isna(v) THEN <<>> ELSE v

Raise(e) == [ok |-> FALSE, err |-> e, stats |-> <<>>]
Return(st) == [ok |-> TRUE, err |-> "none", stats |-> st]

\* df.columns = [c.strip() for c in df.columns]
df_columns(f) == [i \in 1..Len(f.header) |-> strip(f.header[i])]

\* the position of column col in a frame with columns hdr (df[col])
loc(hdr, col) == CHOOSE k \in 1..Len(hdr) : hdr[k] = col

Min2(a, b) == IF a <= b THEN a ELSE b

\* ------------------------------------------------- profile_max_lengths

\* stats = {c: {"max_len": 0, "nullable": False} for c in columns}
stats0(cols) ==
    [i \in 1..Len(cols) |-> [col |-> cols[i], max_len |-> 0, nullable |-> FALSE]]

\* update_max without the comparison: the last chunk's maximum is kept
update_max_last(old, m) == m

\* lines 121-122: if m > stats[col]["max_len"]: stats[col]["max_len"] = m
update_max(old, m) == IF m > old THEN m ELSE old

\* lines 119-120: lengths of the column's values with NA filled by ""
chunk_max(s) ==
    IF s = <<>> THEN 0 ELSE Max({Len(fillna(s[r])) : r \in 1..Len(s)})

\* profile_chunk passing over a column the chunk does not have
profile_chunk_skipping(st, hdr, rows) ==
    Return(
        [i \in 1..Len(st) |->
            IF st[i].col \notin Range(hdr) THEN st[i]
            ELSE LET k == loc(hdr, st[i].col)
                     s == [r \in 1..Len(rows) |-> rows[r][k]]
                 IN [col |-> st[i].col,
                     max_len |-> update_max(st[i].max_len, chunk_max(s)),
                     nullable |-> st[i].nullable
                                  \/ \E r \in 1..Len(s) : isna(s[r])]])

\* the body of "for df in reader" (lines 111-122) on one chunk of rows
profile_chunk(st, hdr, rows) ==
    IF \E i \in 1..Len(st) : st[i].col \notin Range(hdr)
    THEN Raise("KeyError")
    ELSE Return(
        [i \in 1..Len(st) |->
            LET k == loc(hdr, st[i].col)
                s == [r \in 1..Len(rows) |-> rows[r][k]]
            IN [col |-> st[i].col,
                max_len |-> update_max(st[i].max_len, chunk_max(s)),
                nullable |-> st[i].nullable
                             \/ \E r \in 1..Len(s) : isna(s[r])]])

\* the reader of one file from data row o + 1 on, in chunks of cs rows; a
\* file without data rows yields one empty chunk
RECURSIVE profile_file(_, _, _, _)
profile_file(st, f, o, cs) ==
    LET hi == Min2(o + cs, Len(f.rows))
    IN IF f.bad \in (o + 1)..hi THEN Raise("ParserError")
       ELSE LET r == profile_chunk(st, df_columns(f), SubSeq(f.rows, o + 1, hi))
            IN IF ~r.ok \/ hi >= Len(f.rows) THEN r
               ELSE profile_file(r.stats, f, hi, cs)

RECURSIVE profile_files(_, _, _)
profile_files(st, fs, cs) ==
    IF fs = <<>> THEN Return(st)
    ELSE LET r == profile_file(st, Head(fs), 0, cs)
         IN IF ~r.ok THEN r ELSE profile_files(r.stats, Tail(fs), cs)

profile_with(fs, cols, cs) == profile_files(stats0(cols), fs, cs)

profile_max_lengths(fs, cols) == profile_with(fs, cols, CHUNKSIZE)

\* BatchCSVtoSQL.read_header_columns
read_header_columns(f) == df_columns(f)

\* ------------------------------------------- generate_create_table_sql

\* the literal pieces of the f-strings of lines 132-142
L_IF_OBJECT_ID ==
    <<"I", "F", " ", "O", "B", "J", "E", "C", "T", "_", "I", "D", "(", "N",
      "'", "[">>
L_DOT == <<"]", ".", "[">>
L_IS_NOT_NULL ==
    <<"]", "'", ",", " ", "N", "'", "U", "'", ")", " ", "I", "S", " ", "N",
      "O", "T", " ", "N", "U", "L", "L", "\n">>
L_DROP_TABLE ==
    <<" ", " ", " ", " ", "D", "R", "O", "P", " ", "T", "A", "B", "L", "E",
      " ", "[">>
L_END_DROP == <<"]", ";", "\n">>
L_GO == <<"G", "O", "\n">>
L_CREATE_TABLE ==
    <<"C", "R", "E", "A", "T", "E", " ", "T", "A", "B", "L", "E", " ", "[">>
L_OPEN == <<"]", " ", "(", "\n">>
L_CLOSE == <<"\n", ")", ";">>
L_COL_OPEN == <<" ", " ", "[">>
L_VARCHAR == <<"]", " ", "V", "A", "R", "C", "H", "A", "R", "(">>
L_NULL == <<"N", "U", "L", "L">>
L_NOT_NULL == <<"N", "O", "T", " ", "N", "U", "L", "L">>
L_COMMA_NL == <<",", "\n">>

\* name.replace("]", "]]")
RECURSIVE escape_ident(_)
escape_ident(name) ==
    IF name = <<>> THEN <<>>
    ELSE (IF Head(name) = "]" THEN <<"]", "]">> ELSE <<Head(name)>>)
         \o escape_ident(Tail(name))

\* line 132: f"  [{escape_ident(col)}] VARCHAR({size}) {null_sql}"
col_line(info) ==
    L_COL_OPEN \o escape_ident(info.col) \o L_VARCHAR
    \o bucket_size(info.max_len) \o <<")", " ">>
    \o (IF info.nullable THEN L_NULL ELSE L_NOT_NULL)

\* lines 137-138: the conditional DROP statement, up to the separator
drop_text ==
    L_IF_OBJECT_ID \o escape_ident(SCHEMA) \o L_DOT \o escape_ident(TABLE)
    \o L_IS_NOT_NULL \o L_DROP_TABLE \o escape_ident(SCHEMA) \o L_DOT
    \o escape_ident(TABLE) \o L_END_DROP

\* lines 140-142: the CREATE TABLE statement, after the separator
create_text(st) ==
    L_CREATE_TABLE \o escape_ident(SCHEMA) \o L_DOT \o escape_ident(TABLE)
    \o L_OPEN
    \o join(L_COMMA_NL, [i \in 1..Len(st) |-> col_line(st[i])])
    \o L_CLOSE

generate_create_table_sql(st) == drop_text \o L_GO \o create_text(st)

\* ----------------------------------------------- drop_and_create_table

\* Python's s.split(sep): cut at every occurrence of sep, left to right
\* the places at or after from where sep stands in s
found(s, sep, from) ==
    {i \in from..(Len(s) - Len(sep) + 1) :
        \A d \in 1..Len(sep) : s[i + d - 1] = sep[d]}

Min(S) == CHOOSE m \in S : \A x \in S : m <= x

RECURSIVE split_from(_, _, _)
split_from(s, sep, from) ==
    IF found(s, sep, from) = {} THEN <<SubSeq(s, from, Len(s))>>
    ELSE LET i == Min(found(s, sep, from))
         IN <<SubSeq(s, from, i - 1)>> \o split_from(s, sep, i + Len(sep))

split(s, sep) == split_from(s, sep, 1)

\* line 148: [b.strip() for b in create_sql.split("GO") if b.strip()]
batches_of(sql) ==
    LET parts == split(sql, <<"G", "O">>)
    IN [i \in 1..Len(SelectSeq(parts, LAMBDA b : strip(b) # <<>>)) |->
           strip(SelectSeq(parts, LAMBDA b : strip(b) # <<>>)[i])]

\* ---------------------------------------------------------- the store

\* SQL NULL, as a stored value: no string of the files equals it
NULLV == <<"<NULL>">>

NoTable == [exists |-> FALSE, cols |-> <<>>, rows |-> <<>>]

\* the columns CREATE TABLE gives the table for the profile st
table_cols(st) ==
    [i \in 1..Len(st) |->
        [name |-> st[i].col, size |-> bucket_size(st[i].max_len),
         nullable |-> st[i].nullable]]

Executed(op, sql, n) == [op |-> op, sql |-> sql, file |-> n]

\* The store executes the text b of one batch: the complete conditional
\* DROP, the complete CREATE TABLE for st, or a syntax error.
exec_text(tb, b, st) ==
    IF b = strip(drop_text) THEN [ok |-> TRUE, table |-> NoTable]
    ELSE IF b = strip(create_text(st)) /\ ~tb.exists
    THEN [ok |-> TRUE,
          table |-> [exists |-> TRUE, cols |-> table_cols(st), rows |-> <<>>]]
    ELSE [ok |-> FALSE, table |-> tb]

\* lines 149-151: the batches in order, in one transaction
RECURSIVE exec_batches(_, _, _, _)
exec_batches(tb, bs, st, lg) ==
    IF bs = <<>> THEN [ok |-> TRUE, table |-> tb, log |-> lg]
    ELSE LET r == exec_text(tb, Head(bs), st)
             lg2 == Append(lg, Executed("execute", Head(bs), 0))
         IN IF ~r.ok THEN [ok |-> FALSE, table |-> tb, log |-> lg2]
            ELSE exec_batches(r.table, Tail(bs), st, lg2)

\* a VARCHAR(size) column holds v
fits(v, sz) == v = NULLV \/ sz = MAX \/ Len(v) <= int(sz)

col_names(tb) == [j \in 1..Len(tb.cols) |-> tb.cols[j].name]

\* The rows the store accepts: every value fits its column, NULL only in a
\* nullable column.
accepts(tb, rs) ==
    \A r \in 1..Len(rs) : \A j \in 1..Len(tb.cols) :
        /\ fits(rs[r].vals[j], tb.cols[j].size)
        /\ rs[r].vals[j] = NULLV => tb.cols[j].nullable

\* pandas writes NA as NULL (to_sql)
to_sql_value(v) == IF isna(v) THEN NULLV ELSE v

\* BULK INSERT ... KEEPNULLS: an empty field is NULL, any other is its text
bulk_value(v) == IF v = <<>> THEN NULLV ELSE v

\* the load loop's position after the rows up to hi of file pos.file
advance(hi) ==
    IF hi < Len(files[pos.file].rows) THEN [file |-> pos.file, row |-> hi]
    ELSE [file |-> pos.file + 1, row |-> 0]

Abort(e) == pc' = "aborted" /\ err' = e

\* ------------------------------------------------- BatchCSVtoSQL.main

config == <<BUCKETS, VARCHAR_MAX_THRESHOLD, CHUNKSIZE>>
sizer == <<width, size, sized>>

\* lines 184-189: get_csv_files, read_header_columns(files[0])
BatchReadHeader ==
    /\ script = "Batch" /\ pc = "start"
    /\ IF files = <<>>
       THEN Abort("FileNotFoundError") /\ UNCHANGED columns
       ELSE /\ columns' = read_header_columns(files[1])
            /\ pc' = "profile"
            /\ UNCHANGED err
    /\ UNCHANGED <<script, config, files, stats, create_sql, table, table0,
                   log, pos, sizer>>

\* line 192: stats = profile_max_lengths(files, columns)
BatchProfile ==
    /\ script = "Batch" /\ pc = "profile"
    /\ LET r == profile_max_lengths(files, columns)
       IN IF r.ok
          THEN stats' = r.stats /\ pc' = "generate" /\ UNCHANGED err
          ELSE Abort(r.err) /\ UNCHANGED stats
    /\ UNCHANGED <<script, config, files, columns, create_sql, table, table0,
                   log, pos, sizer>>

\* line 195: create_sql = generate_create_table_sql(stats)
BatchGenerate ==
    /\ script = "Batch" /\ pc = "generate"
    /\ create_sql' = generate_create_table_sql(stats)
    /\ pc' = "create"
    /\ UNCHANGED <<script, err, config, files, columns, stats, table, table0,
                   log, pos, sizer>>

\* lines 203-206: make_engine, drop_and_create_table(engine, create_sql);
\* engine.begin() rolls the transaction back when a batch fails
BatchDropAndCreate ==
    /\ script = "Batch" /\ pc = "create"
    /\ LET r == exec_batches(table, batches_of(create_sql), stats, log)
       IN /\ log' = r.log
          /\ IF r.ok
             THEN table' = r.table /\ pc' = "load" /\ UNCHANGED err
             ELSE Abort("StoreError") /\ UNCHANGED table
    /\ pos' = [file |-> 1, row |-> 0]
    /\ UNCHANGED <<script, config, files, columns, stats, create_sql, table0,
                   sizer>>

\* lines 166-179 of load_all_csvs: one chunk read, realigned and appended
BatchLoadChunk ==
    /\ script = "Batch" /\ pc = "load" /\ pos.file <= Len(files)
    /\ LET f == files[pos.file]
           hi == Min2(pos.row + CHUNKSIZE, Len(f.rows))
           hdr == df_columns(f)
           rs == [r \in 1..(hi - pos.row) |->
                    [file |-> pos.file, row |-> pos.row + r,
                     vals |-> [j \in 1..Len(table.cols) |->
                        to_sql_value(
                          f.rows[pos.row + r][loc(hdr, table.cols[j].name)])]]]
       IN IF f.bad \in (pos.row + 1)..hi
          THEN Abort("ParserError") /\ UNCHANGED <<table, log, pos>>
          ELSE IF \E i \in 1..Len(columns) : columns[i] \notin Range(hdr)
          THEN Abort("KeyError") /\ UNCHANGED <<table, log, pos>>
          ELSE IF ~(table.exists /\ Range(col_names(table)) \subseteq Range(hdr))
                  \/ ~accepts(table, rs)
          THEN /\ Abort("StoreError")
               /\ log' = Append(log, Executed("insert", <<>>, pos.file))
               /\ UNCHANGED <<table, pos>>
          ELSE /\ table' = [table EXCEPT !.rows = @ \o rs]
               /\ log' = Append(log, Executed("insert", <<>>, pos.file))
               /\ pos' = advance(hi)
               /\ pc' = IF advance(hi).file > Len(files) THEN "done" ELSE "load"
               /\ UNCHANGED err
    /\ UNCHANGED <<script, config, files, columns, stats, create_sql, table0,
                   sizer>>

\* -------------------------------------------------- BulkCSVtoSQL.main

DEFAULT_VARCHAR_LEN == 4000

\* BulkCSVtoSQL.read_header_columns: the stripped fields of the first line
bulk_read_header_columns(f) == [i \in 1..Len(f.header) |-> strip(f.header[i])]

\* the table create_table_from_header creates
table_from_header(cols) ==
    [exists |-> TRUE,
     cols |-> [i \in 1..Len(cols) |->
                 [name |-> safe_cols(cols)[i], size |-> str(DEFAULT_VARCHAR_LEN),
                  nullable |-> TRUE]],
     rows |-> <<>>]

\* lines 156-165: list_csv_files, connect, table_exists
BulkProbe ==
    /\ script = "Bulk" /\ pc = "start"
    /\ IF files = <<>>
       THEN Abort("FileNotFoundError") /\ UNCHANGED log
       ELSE /\ log' = Append(log, Executed("table_exists", <<>>, 0))
            /\ pc' = IF table.exists THEN "truncate" ELSE "create"
            /\ UNCHANGED err
    /\ UNCHANGED <<script, config, files, columns, stats, create_sql, table,
                   table0, pos, sizer>>

\* BulkTruncate without the TRUNCATE: the old rows stay
BulkTruncate_rows_kept ==
    /\ script = "Bulk" /\ pc = "truncate"
    /\ log' = Append(log, Executed("truncate", <<>>, 0))
    /\ pc' = "load"
    /\ pos' = [file |-> 1, row |-> 0]
    /\ UNCHANGED <<script, err, config, files, columns, stats, create_sql,
                   table, table0, sizer>>

\* lines 166-167: truncate_table
BulkTruncate ==
    /\ script = "Bulk" /\ pc = "truncate"
    /\ table' = [table EXCEPT !.rows = <<>>]
    /\ log' = Append(log, Executed("truncate", <<>>, 0))
    /\ pc' = "load"
    /\ pos' = [file |-> 1, row |-> 0]
    /\ UNCHANGED <<script, err, config, files, columns, stats, create_sql,
                   table0, sizer>>

\* lines 169-171: read_header_columns(files[0]), create_table_from_header
BulkCreate ==
    /\ script = "Bulk" /\ pc = "create"
    /\ LET cols == bulk_read_header_columns(files[1])
       IN IF \E i \in 1..Len(cols) : cols[i] = <<>>
          THEN Abort("ValueError") /\ UNCHANGED <<columns, table, log>>
          ELSE /\ columns' = cols
               /\ table' = table_from_header(cols)
               /\ log' = Append(log, Executed("create", <<>>, 0))
               /\ pc' = "load"
               /\ UNCHANGED err
    /\ pos' = [file |-> 1, row |-> 0]
    /\ UNCHANGED <<script, config, files, stats, create_sql, table0, sizer>>

\* lines 174-178: bulk_insert_file for the next file. The store skips the
\* header line (FIRSTROW = 2) and fills the table's columns by position;
\* MAXERRORS = 0 fails the statement on a row it cannot take, and a model
\* file is smaller than BATCHSIZE, so a failed file leaves no row.
BulkInsertFile ==
    /\ script = "Bulk" /\ pc = "load" /\ pos.file <= Len(files)
    /\ LET f == files[pos.file]
           rs == [r \in 1..Len(f.rows) |->
                    [file |-> pos.file, row |-> r,
                     vals |-> [j \in 1..Len(f.rows[r]) |->
                                  bulk_value(f.rows[r][j])]]]
       IN /\ log' = Append(log, Executed("bulk_insert", <<>>, pos.file))
          /\ IF f.bad > 0
                \/ (f.rows # <<>> /\ Len(f.header) # Len(table.cols))
                \/ ~accepts(table, rs)
             THEN Abort("StoreError") /\ UNCHANGED <<table, pos>>
             ELSE /\ table' = [table EXCEPT !.rows = @ \o rs]
                  /\ pos' = [file |-> pos.file + 1, row |-> 0]
                  /\ pc' = IF pos.file + 1 > Len(files) THEN "done" ELSE "load"
                  /\ UNCHANGED err
    /\ UNCHANGED <<script, config, files, columns, stats, create_sql, table0,
                   sizer>>

\* ------------------------------------------------------ bucket_size run

\* size = bucket_size(width)
SizeWidth ==
    /\ script = "none" /\ pc = "size"
    /\ size' = bucket_size(width)
    /\ pc' = "sized"
    /\ UNCHANGED <<script, err, config, files, columns, stats, create_sql,
                   table, table0, log, pos, width, sized>>

\* on to the next width, up to Slack above the threshold
NextWidth ==
    /\ script = "none" /\ pc = "sized"
    /\ width < VARCHAR_MAX_THRESHOLD + Slack
    /\ width' = width + 1
    /\ sized' = sized \cup {size}
    /\ pc' = "size"
    /\ UNCHANGED <<script, err, config, files, columns, stats, create_sql,
                   table, table0, log, pos, size>>

\* -------------------------------------------------------------- inputs

A == <<"A">>
B == <<"B">>
C == <<"C">>
GOAL == <<"G", "O", "A", "L">>
A_2 == <<"A", "_", "2">>
A_3 == <<"A", "_", "3">>
PaddedA == <<" ", "A">>
Blank == <<" ">>

\* sequences over S of length at most n
Seqs(S, n) == UNION {[1..k -> S] : k \in 0..n}

\* the number of fields of every header of HS
Arity(HS) == Len(CHOOSE h \in HS : TRUE)

\* the data rows of the first i files, when file j holds ks[j] of them
RECURSIVE RowsThrough(_, _)
RowsThrough(ks, i) == IF i = 0 THEN 0 ELSE ks[i] + RowsThrough(ks, i - 1)

\* files is a manifest of lo to hi files (and of MaxFiles at most) with
\* headers of HS, holding at most MaxRows data rows in all with fields of F,
\* and (when decode) in each file possibly one row that cannot be decoded
Manifest(HS, F, lo, hi, decode) ==
    \E n \in lo..hi :
    \E hs \in [1..n -> HS] :
    \E ks \in [1..n -> 0..MaxRows] :
        /\ RowsThrough(ks, n) <= MaxRows
        /\ \E flat \in [1..RowsThrough(ks, n) -> [1..Arity(HS) -> F]] :
           \E bs \in [1..n -> IF decode THEN 0..MaxRows ELSE {0}] :
               /\ \A i \in 1..n : bs[i] <= ks[i]
               /\ files =
                     [i \in 1..n |->
                         [header |-> hs[i],
                          rows |-> SubSeq(flat, RowsThrough(ks, i - 1) + 1,
                                          RowsThrough(ks, i)),
                          bad |-> bs[i]]]

\* a table left by an earlier load, with a schema of its own and one row
OldTable ==
    [exists |-> TRUE,
     cols |-> <<[name |-> A, size |-> str(10), nullable |-> TRUE],
                [name |-> B, size |-> str(10), nullable |-> TRUE]>>,
     rows |-> <<[file |-> 0, row |-> 1, vals |-> <<<<"o">>, NULLV>>]>>]

Policies ==
    {[buckets |-> DEFAULT_BUCKETS, threshold |-> DEFAULT_VARCHAR_MAX_THRESHOLD],
     [buckets |-> <<10, 25>>, threshold |-> 40],
     [buckets |-> <<2, 5>>, threshold |-> 5],
     [buckets |-> <<1, 3>>, threshold |-> 8]}

DefaultConfig ==
    /\ BUCKETS = DEFAULT_BUCKETS
    /\ VARCHAR_MAX_THRESHOLD = DEFAULT_VARCHAR_MAX_THRESHOLD

Fresh ==
    /\ pc = "start" /\ err = "none"
    /\ columns = <<>> /\ stats = <<>> /\ create_sql = <<>>
    /\ table0 = table /\ log = <<>>
    /\ pos = [file |-> 0, row |-> 0]
    /\ width = 0 /\ size = <<>> /\ sized = {}

\* ------------------------------------------------------ specifications

\* A whole run of either program.
RunHeaders == {<<A, B>>, <<B, A>>, <<A, C>>, <<A, GOAL>>}
RunFields == {<<>>, <<"x">>}

InitRun ==
    /\ script \in {"Batch", "Bulk"}
    /\ DefaultConfig
    /\ CHUNKSIZE \in 1..MaxChunk
    /\ Manifest(RunHeaders, RunFields, 0, MaxFiles, TRUE)
    /\ table \in {NoTable, OldTable}
    /\ Fresh

NextRun ==
    \/ BatchReadHeader
    \/ BatchProfile
    \/ BatchGenerate
    \/ BatchDropAndCreate
    \/ BatchLoadChunk
    \/ BulkProbe
    \/ BulkTruncate
    \/ BulkCreate
    \/ BulkInsertFile

SpecRun == InitRun /\ [][NextRun]_vars

\* A whole run of either program over manifests whose rows are all alike:
\* what varies is the program, the table found, and the files' headers
\* and row counts.
LifecycleFields == {<<"x">>}

InitLifecycle ==
    /\ script \in {"Batch", "Bulk"}
    /\ DefaultConfig
    /\ CHUNKSIZE \in 1..MaxChunk
    /\ Manifest(RunHeaders, LifecycleFields, 0, MaxFiles, FALSE)
    /\ table \in {NoTable, OldTable}
    /\ Fresh

SpecLifecycle == InitLifecycle /\ [][NextRun]_vars

\* A whole run of BatchCSVtoSQL over corpora of which some cannot be
\* profiled: a file lacks a column of the first, or holds a row that cannot
\* be decoded.
CorpusHeaders == {<<A, B>>, <<B, A>>, <<A, C>>}

InitCorpus ==
    /\ script = "Batch"
    /\ DefaultConfig
    /\ CHUNKSIZE \in 1..MaxChunk
    /\ Manifest(CorpusHeaders, LifecycleFields, 0, MaxFiles, TRUE)
    /\ table \in {NoTable, OldTable}
    /\ Fresh

NextBatch ==
    \/ BatchReadHeader
    \/ BatchProfile
    \/ BatchGenerate
    \/ BatchDropAndCreate
    \/ BatchLoadChunk

SpecCorpus == InitCorpus /\ [][NextBatch]_vars

\* The profiling pass of BatchCSVtoSQL over manifests of several files.
ProfileHeaders == {<<A, B>>, <<B, PaddedA>>}
ProfileFields == {<<>>, <<"x">>, <<"x", "x">>}

InitProfile ==
    /\ script = "Batch"
    /\ DefaultConfig
    /\ CHUNKSIZE \in 1..MaxChunk
    /\ Manifest(ProfileHeaders, ProfileFields, 1, MaxFiles, FALSE)
    /\ table = NoTable
    /\ Fresh

NextProfile ==
    \/ BatchReadHeader
    \/ BatchProfile

SpecProfile == InitProfile /\ [][NextProfile]_vars

\* The profiling pass over one single-column file, its values every string
\* of at most MaxFieldLen characters over blank, "N" and "A".
ValueFields == Seqs({" ", "N", "A"}, MaxFieldLen)

InitValues ==
    /\ script = "Batch"
    /\ DefaultConfig
    /\ CHUNKSIZE \in 1..MaxChunk
    /\ Manifest({<<A>>}, ValueFields, 1, 1, FALSE)
    /\ table = NoTable
    /\ Fresh

SpecValues == InitValues /\ [][NextProfile]_vars

\* BulkCSVtoSQL over one file without data rows, its header any sequence of
\* at most MaxHeader of these names.
DedupNames == {A, B, A_2, A_3, PaddedA, Blank}

InitDedup ==
    /\ script = "Bulk"
    /\ DefaultConfig
    /\ CHUNKSIZE = 1
    /\ files \in {<<[header |-> h, rows |-> <<>>, bad |-> 0]>> :
                     h \in Seqs(DedupNames, MaxHeader) \ {<<>>}}
    /\ table \in {NoTable, OldTable}
    /\ Fresh

NextDedup ==
    \/ BulkProbe
    \/ BulkTruncate
    \/ BulkCreate
    \/ BulkInsertFile

SpecDedup == InitDedup /\ [][NextDedup]_vars

\* bucket_size under each sizing policy, on every width in turn from -Slack
\* to Slack above the policy's threshold.
InitSizer ==
    /\ script = "none"
    /\ \E p \in Policies :
          /\ BUCKETS = p.buckets
          /\ VARCHAR_MAX_THRESHOLD = p.threshold
    /\ width = 0 - Slack
    /\ CHUNKSIZE = 1
    /\ files = <<>> /\ table = NoTable
    /\ pc = "size" /\ err = "none"
    /\ columns = <<>> /\ stats = <<>> /\ create_sql = <<>>
    /\ table0 = table /\ log = <<>>
    /\ pos = [file |-> 0, row |-> 0]
    /\ size = <<>> /\ sized = {}

NextSizer ==
    \/ SizeWidth
    \/ NextWidth

SpecSizer == InitSizer /\ [][NextSizer]_vars

\* ---------------------------------------------------------- properties

\* the order on sizes: numbers as integers, MAX above every number
LeSize(a, b) == b = MAX \/ (a # MAX /\ int(a) <= int(b))

\* C5: bucket_size is monotonic non-decreasing: the size of every width
\* below width (zero and negative widths included) is at most
\* bucket_size(width), in the order where MAX is greatest.
C5_Monotonic ==
    pc = "sized" => \A s \in sized : LeSize(s, size)

C5_Witness ==
    /\ pc = "sized" /\ BUCKETS = DEFAULT_BUCKETS
    /\ width = 4001 /\ size = MAX
    /\ sized = {str(DEFAULT_BUCKETS[i]) : i \in 1..Len(DEFAULT_BUCKETS)}

\* C6: under every sizing policy a width <= 0 gets the smallest bucket of
\* the policy, the first of its ascending bucket list.
C6_SmallestBucket ==
    (pc = "sized" /\ width <= 0) => size = str(BUCKETS[1])

\* create_table_from_header has run
Created == script = "Bulk" /\ \E i \in 1..Len(log) : log[i].op = "create"

\* the names the table got, and those given before position k
out == col_names(table)
taken(k) == {out[j] : j \in 1..(k - 1)}

Distinct(s) == \A i, j \in 1..Len(s) : i # j => s[i] # s[j]

\* a taken name X becomes X_i for the smallest i >= 2 with X_i not taken
FirstFreeSuffix(k) ==
    \E i \in 2..(Len(columns) + 1) :
        /\ out[k] = suffixed(columns[k], i)
        /\ out[k] \notin taken(k)
        /\ \A j \in 2..(i - 1) : suffixed(columns[k], j) \in taken(k)

\* C7 as amended: as many names as the header has, pairwise distinct; a
\* header name not yet taken by an earlier produced name is kept unchanged,
\* a taken name X becomes X_i for the smallest i >= 2 with X_i not taken;
\* [A, A, A] yields [A, A_2, A_3].
C7_Dedup ==
    Created =>
        /\ Len(out) = Len(columns)
        /\ Distinct(out)
        /\ \A k \in 1..Len(columns) :
              IF columns[k] \in taken(k) THEN FirstFreeSuffix(k)
              ELSE out[k] = columns[k]
        /\ columns = <<A, A, A>> => out = <<A, A_2, A_3>>

C7_Witness ==
    /\ Created
    /\ columns = <<A, A, A_2>>
    /\ out = <<A, A_2, <<"A", "_", "2", "_", "2">>>>

\* C7 as stated: the first occurrence of a name in the header is kept
\* unchanged, and every later occurrence gets the first free suffix.
C7_FirstOccurrenceKept ==
    Created =>
        /\ Len(out) = Len(columns)
        /\ Distinct(out)
        /\ \A k \in 1..Len(columns) :
              IF \E j \in 1..(k - 1) : columns[j] = columns[k]
              THEN FirstFreeSuffix(k)
              ELSE out[k] = columns[k]

\* profile_max_lengths has returned stats
Profiled == script = "Batch" /\ pc = "generate"

\* C1: for every chunk size >= 1 (up to one above MaxChunk), profiling the
\* manifest yields the profile the run got under CHUNKSIZE: the same max_len
\* and nullable for every header column.
C1_ChunkSizeIndependent ==
    Profiled =>
        \A cs \in 1..(MaxChunk + 1) :
            profile_with(files, columns, cs) = Return(stats)

C1_Witness ==
    /\ Profiled
    /\ CHUNKSIZE = 1
    /\ Len(files) = 2
    /\ Len(files[1].rows) = 2
    /\ files[1].header = <<A, B>> /\ files[2].header = <<B, PaddedA>>
    /\ files[1].rows[1][1] = <<"x", "x">> /\ files[1].rows[2][1] = <<"x">>
    /\ stats[1] = [col |-> A, max_len |-> 2, nullable |-> FALSE]

\* the values of the only column of the only file
values == {files[1].rows[r][1] : r \in 1..Len(files[1].rows)}

\* absent as the claim has it: empty after trimming, or the null sentinel
Absent(v) == strip(v) = <<>> \/ v \in NaValues

MaxLenOf(S) == Max({Len(v) : v \in S} \cup {0})

\* C4 as amended: a value that is the empty string or the null sentinel is
\* absent: it makes the column nullable and adds length 0; every other
\* value, one of whitespace alone included, is present: it adds its whole
\* untrimmed length and does not make the column nullable.
C4_AbsentValues ==
    Profiled =>
        /\ stats[1].nullable = (\E v \in values : v \in NaValues)
        /\ stats[1].max_len = MaxLenOf(values \ NaValues)

C4_Witness ==
    /\ Profiled
    /\ files[1].rows = << <<Blank>>, <<<<"N", "A">>>> >>
    /\ stats[1] = [col |-> A, max_len |-> 1, nullable |-> TRUE]

\* C4 as stated: a value empty after trimming, and the null sentinel, are
\* both absent: either makes the column nullable, and neither adds to
\* max_len.
C4_TrimmedEmptyIsAbsent ==
    Profiled =>
        /\ (\E v \in values : Absent(v)) => stats[1].nullable
        /\ stats[1].max_len = MaxLenOf({v \in values : ~Absent(v)})

\* the canonical header: the stripped header of the first file
canonical == df_columns(files[1])

\* file f has every canonical column
HasColumns(f) == Range(canonical) \subseteq Range(df_columns(f))

\* the profiling pass fails on some file: a missing column or a row that
\* cannot be decoded
BadCorpus ==
    /\ files # <<>>
    /\ \E k \in 1..Len(files) : files[k].bad > 0 \/ ~HasColumns(files[k])

ops == [i \in 1..Len(log) |-> log[i].op]

\* C8: when the profiling pass fails on a file of the manifest, the run of
\* BatchCSVtoSQL aborts with that error before anything is executed against
\* the store: the table is as it was, neither dropped, created nor loaded.
C8_ProfileFailureLoadsNothing ==
    (script = "Batch" /\ BadCorpus) =>
        /\ pc \in {"start", "profile", "aborted"}
        /\ pc = "aborted" => err \in {"KeyError", "ParserError"}
        /\ log = <<>>
        /\ table = table0

C8_Witness ==
    /\ script = "Batch" /\ pc = "aborted" /\ err = "ParserError"
    /\ Len(files) = 2 /\ files[1].bad = 0 /\ HasColumns(files[2])
    /\ files[2].bad = 1
    /\ table0 = OldTable /\ table = OldTable /\ log = <<>>

\* the load of the first file is about to start
LoadStarting == pc = "load" /\ pos = [file |-> 1, row |-> 0]

IsLoad(e) == e.op \in {"insert", "bulk_insert"}

DropAndCreateLog ==
    <<Executed("execute", strip(drop_text), 0),
      Executed("execute", strip(create_text(stats)), 0)>>

\* C9 as amended: BulkCSVtoSQL makes one existence probe and then one
\* transition (a missing table is created from the first file's header, an
\* existing one keeps its schema and loses its rows); BatchCSVtoSQL makes no
\* separate probe and keeps no schema: it executes the conditional DROP and
\* the CREATE TABLE for the profile, whether the table existed or not. In
\* both the load starts only after that, on a table without rows.
C9_Lifecycle ==
    /\ \A i \in 1..Len(log) : IsLoad(log[i]) => i > 2
    /\ LoadStarting =>
        /\ table.exists /\ table.rows = <<>>
        /\ IF script = "Batch"
           THEN log = DropAndCreateLog /\ table.cols = table_cols(stats)
           ELSE IF table0.exists
           THEN ops = <<"table_exists", "truncate">>
                /\ table.cols = table0.cols
           ELSE ops = <<"table_exists", "create">>
                /\ col_names(table) = safe_cols(canonical)

C9_Witness ==
    /\ script = "Bulk" /\ LoadStarting
    /\ table0 = OldTable
    /\ table = [OldTable EXCEPT !.rows = <<>>]
    /\ ops = <<"table_exists", "truncate">>

\* an executed statement that tests whether the table exists
IsProbe(e) ==
    e.op = "table_exists" \/ (e.op = "execute" /\ e.sql = strip(drop_text))

\* C9 as stated: in every run, one existence probe and one transition come
\* before the load: a missing table is created from the first file's
\* header, an existing one keeps its schema and loses its rows.
C9_EveryRunProbesThenKeepsSchema ==
    LoadStarting =>
        /\ Cardinality({i \in 1..Len(log) : IsProbe(log[i])}) = 1
        /\ Len(log) = 2
        /\ table.exists /\ table.rows = <<>>
        /\ IF table0.exists THEN table.cols = table0.cols
           ELSE col_names(table) = safe_cols(canonical)

\* C2: no row of the table comes from a file that lacks a canonical column,
\* and a run over such a file does not end well.
C2_NoRowFromFileLackingColumn ==
    /\ \A i \in 1..Len(table.rows) :
          table.rows[i].file > 0 => HasColumns(files[table.rows[i].file])
    /\ pc = "done" => \A k \in 1..Len(files) : HasColumns(files[k])

\* file k has the canonical names in another order
Reordered(k) ==
    /\ k > 1
    /\ Len(files[k].header) = Len(canonical)
    /\ Range(df_columns(files[k])) = Range(canonical)
    /\ df_columns(files[k]) # canonical

\* what the store holds for the field v of a file
stored(v) == IF script = "Batch" THEN to_sql_value(v) ELSE bulk_value(v)

\* C3: every value loaded from a file with the canonical names in another
\* order is stored in the table column named like its file column.
C3_ValuesUnderOwnName ==
    \A i \in 1..Len(table.rows) :
        LET k == table.rows[i].file
            r == table.rows[i].row
        IN (k > 0 /\ Reordered(k)) =>
              \A j \in 1..Len(table.cols) :
                  table.cols[j].name \in Range(df_columns(files[k])) =>
                      table.rows[i].vals[j] =
                          stored(files[k].rows[r][loc(df_columns(files[k]),
                                                      table.cols[j].name)])

\* drop_and_create_table has run
DropAndCreateRan == script = "Batch" /\ create_sql # <<>> /\ pc # "create"

\* C10: drop_and_create_table executes exactly two statements, in order:
\* the complete conditional DROP and the complete CREATE TABLE.
C10_TwoCompleteStatements ==
    DropAndCreateRan =>
        SelectSeq(log, LAMBDA e : e.op = "execute") = DropAndCreateLog

====
